---- MODULE Spec2Model ----
(***************************************************************************)
(* A model of TMVA::MethodBDT (src/tmva/src/MethodBDT.cxx): training of a  *)
(* boosted / bagged forest of decision trees, the AdaBoost and Bagging     *)
(* reweighting passes, persistence of the forest to a text stream, the     *)
(* ensemble score and the variable importance; and of the collection of   *)
(* branch names of a TTree and its friends, GetBranchNames and             *)
(* GetTopLevelBranchNames (src/tree/treeplayer/src/TDFInterfaceUtils.cxx). *)
(*                                                                         *)
(* Double_t values are modelled as exact extended rationals <<n, d>>:      *)
(*   d > 0        the rational n/d in lowest terms,                        *)
(*   <<0, 0>>     NaN,   <<1, 0>>  +inf,   <<-1, 0>>  -inf,                *)
(* with the IEEE-754 rules for the non-finite values.  The sums, products  *)
(* and quotients are exact, except in the two renormalisation statements   *)
(* (lines 398-400 and 424-426), whose product and quotient are rounded to  *)
(* a binary format of MantissaBits significant bits, round-to-nearest,     *)
(* ties-to-even: w * sumw / newSumw is evaluated left to right, and its    *)
(* result is not w even when sumw = newSumw.  log() is computed to five    *)
(* decimals.                                                               *)
(***************************************************************************)
EXTENDS Integers, Sequences, FiniteSets, TLC

(***************************************************************************)
(* Double_t arithmetic                                                     *)
(***************************************************************************)
Abs(x) == IF x < 0 THEN -x ELSE x

Sign(x) == IF x < 0 THEN -1 ELSE IF x > 0 THEN 1 ELSE 0

RECURSIVE GCD(_, _)
GCD(a, b) == IF b = 0 THEN a ELSE GCD(b, a % b)

NaN == <<0, 0>>

PInf == <<1, 0>>

NInf == <<-1, 0>>

IsNaN(a) == a = NaN

IsFinite(a) == a[2] > 0

\* the double n/d (d # 0), in lowest terms with a positive denominator
Q(n, d) ==
    LET g == GCD(Abs(n), Abs(d))
        s == IF d < 0 THEN -1 ELSE 1
    IN  <<s * (n \div g), s * (d \div g)>>

Z(n) == <<n, 1>>

Zero == Z(0)

One == Z(1)

Neg(a) == <<-a[1], a[2]>>

\* a + b
Add(a, b) ==
    IF IsNaN(a) \/ IsNaN(b) THEN NaN
    ELSE IF ~IsFinite(a) /\ ~IsFinite(b) THEN (IF a = b THEN a ELSE NaN)
    ELSE IF ~IsFinite(a) THEN a
    ELSE IF ~IsFinite(b) THEN b
    ELSE LET g == GCD(a[2], b[2])
         IN  Q(a[1] * (b[2] \div g) + b[1] * (a[2] \div g), (a[2] \div g) * b[2])

\* a * b
Mul(a, b) ==
    IF IsNaN(a) \/ IsNaN(b) THEN NaN
    ELSE IF ~IsFinite(a) \/ ~IsFinite(b)
         THEN (IF a[1] = 0 \/ b[1] = 0 THEN NaN ELSE <<Sign(a[1]) * Sign(b[1]), 0>>)
    ELSE LET g1 == GCD(Abs(a[1]), b[2])
             g2 == GCD(Abs(b[1]), a[2])
         IN  Q((a[1] \div g1) * (b[1] \div g2), (a[2] \div g2) * (b[2] \div g1))

\* a / b
Div(a, b) ==
    IF IsNaN(a) \/ IsNaN(b) THEN NaN
    ELSE IF ~IsFinite(a) THEN (IF ~IsFinite(b) THEN NaN
                               ELSE <<a[1] * (IF b[1] < 0 THEN -1 ELSE 1), 0>>)
    ELSE IF ~IsFinite(b) THEN Zero
    ELSE IF b[1] = 0 THEN <<Sign(a[1]), 0>>
    ELSE Mul(a, Q(b[2], b[1]))

\* a < b (false when either is NaN)
Lt(a, b) ==
    IF IsNaN(a) \/ IsNaN(b) THEN FALSE
    ELSE IF ~IsFinite(a) THEN a = NInf /\ b # NInf
    ELSE IF ~IsFinite(b) THEN b = PInf
    ELSE a[1] * b[2] < b[1] * a[2]

\* a > b
Gt(a, b) == Lt(b, a)

\* a == b (false when either is NaN)
Eq(a, b) == ~IsNaN(a) /\ ~IsNaN(b) /\ a = b

\* a <= b
Le(a, b) == Lt(a, b) \/ Eq(a, b)

RECURSIVE Exponent2(_, _)
\* the k with 2^k <= n/d < 2^(k+1)  (n, d > 0)
Exponent2(n, d) ==
    IF n >= 2 * d THEN Exponent2(n, 2 * d) + 1
    ELSE IF n < d THEN Exponent2(2 * n, d) - 1
    ELSE 0

RECURSIVE TwoTo(_)
TwoTo(k) == IF k = 0 THEN 1 ELSE 2 * TwoTo(k - 1)

\* the nearest integer to n/d, a tie going to the even one  (n >= 0, d > 0)
NearestEven(n, d) ==
    LET q == n \div d
        r == n % d
    IN  IF 2 * r < d THEN q
        ELSE IF 2 * r > d THEN q + 1
        ELSE IF q % 2 = 0 THEN q ELSE q + 1

\* the value of the format with bits significant bits that is nearest to a
RoundTo(bits, a) ==
    IF ~IsFinite(a) \/ a[1] = 0 THEN a
    ELSE LET n  == Abs(a[1])
             sh == bits - 1 - Exponent2(n, a[2])
             m  == IF sh >= 0 THEN NearestEven(n * TwoTo(sh), a[2])
                   ELSE NearestEven(n, a[2] * TwoTo(-sh))
         IN  IF sh >= 0 THEN Q(Sign(a[1]) * m, TwoTo(sh))
             ELSE Z(Sign(a[1]) * m * TwoTo(-sh))

RECURSIVE SumSeq(_)
SumSeq(s) == IF s = <<>> THEN Zero ELSE Add(SumSeq(SubSeq(s, 1, Len(s) - 1)), s[Len(s)])

(***************************************************************************)
(* log(): the natural logarithm to five decimals.  x = m * 2^k with m in    *)
(* [1, 2), log(x) = k*ln(2) + 2*atanh((m-1)/(m+1)), the series summed in   *)
(* fixed point.  log(1/x) = -log(x), log(0) = -inf, log(x < 0) = NaN.      *)
(***************************************************************************)
LogScale == 1000 * 1000

\* a*b/LogScale for fixed-point a, b in 0..LogScale, without leaving 32 bits
MulFixed(a, b) == ((a \div 1000) * b + ((a % 1000) * b) \div 1000) \div 1000

RECURSIVE AtanhSeries(_, _, _, _)
\* sum of y^j/j for odd j = k, k+2, .. while the terms are non-zero; p = y^k
AtanhSeries(p, y2, k, acc) ==
    IF p = 0 THEN acc
    ELSE AtanhSeries(MulFixed(p, y2), y2, k + 2, acc + (2 * p + k) \div (2 * k))

RECURSIVE Log2Floor(_, _)
\* the largest k with d * 2^k <= n  (n >= d > 0)
Log2Floor(n, d) == IF 2 * d <= n THEN 1 + Log2Floor(n, 2 * d) ELSE 0

RECURSIVE Pow2(_)
Pow2(k) == IF k = 0 THEN 1 ELSE 2 * Pow2(k - 1)

\* log(n/d) * LogScale for n >= d > 0
LogFixed(n, d) ==
    LET k  == Log2Floor(n, d)
        D  == d * Pow2(k)
        y  == ((n - D) * LogScale) \div (n + D)
    IN  (k * 69314718 + 50) \div 100 + 2 * AtanhSeries(y, MulFixed(y, y), 1, 0)

Log(a) ==
    IF IsNaN(a) THEN NaN
    ELSE IF a = PInf THEN PInf
    ELSE IF a[1] < 0 THEN NaN
    ELSE IF a[1] = 0 THEN NInf
    ELSE IF a[1] >= a[2] THEN Q(LogFixed(a[1], a[2]), LogScale)
    ELSE Q(-LogFixed(a[2], a[1]), LogScale)

(***************************************************************************)
(* Bounds of the model                                                     *)
(***************************************************************************)
\* the significant bits of the format a rounded double operation rounds to
MantissaBits == 3

\* a * b and a / b as one rounded operation each
MulRounded(a, b) == RoundTo(MantissaBits, Mul(a, b))

DivRounded(a, b) == RoundTo(MantissaBits, Div(a, b))

\* the training sample holds 1..MaxEvents events
MaxEvents == 3

\* initial event weights are the integers 0..MaxWeight
MaxWeight == 2

\* Train starts from samples of 1..MaxTrainEvents events
MaxTrainEvents == 2

\* the NTrees option is 1..MaxTrees, and an ensemble trains MaxTrees rounds
\* at most in its life
MaxTrees == 2

\* GetNvar(): the number of input variables
NVar == 2

\* the separation gain of a tree's split is 1..MaxImportance
MaxImportance == 1

\* a weight file handed to the application holds 0..MaxEvalTrees trees
MaxEvalTrees == 2

\* GetVariableImportance is called while the entries of fVariableImportance
\* have denominators up to MaxDenominator
MaxDenominator == 2

\* line 230: fNTrees = 200
DefaultNTrees == 200

(***************************************************************************)
(* The collaborators: events, trees, the random generator                  *)
(***************************************************************************)
\* what DecisionTree::CheckEvent may return for an event
TreeScores == {Zero, Q(1, 2), One}

\* what TRandom::Rndm may return
RndmValues == {Zero, Q(1, 2)}

\* a tree as BuildTree and PruneTree can leave it: its node count and what
\* DecisionTree::GetVariableImportance() returns.  A tree of the root node
\* alone has no split and no importance; a tree of one split has three
\* nodes and the gain of the split as the importance of the split's variable
Shapes ==
    {[nodes |-> 1, imp |-> [v \in 1..NVar |-> 0]]} \cup
    {[nodes |-> 3, imp |-> [v \in 1..NVar |-> IF v = iv THEN g ELSE 0]] :
        iv \in 1..NVar, g \in 1..MaxImportance}

\* a decision tree: where it comes from, whether BuildTree and PruneTree
\* have run on it, its node count and DecisionTree::GetVariableImportance()
NewTree == [origin |-> "train", built |-> FALSE, pruned |-> FALSE,
            nodes |-> 0, imp |-> [v \in 1..NVar |-> 0]]

\* lines 466-470: the tree ReadWeightsFromStream makes of a shape it read
ReadTree(shape) == [origin |-> "read", built |-> FALSE, pruned |-> FALSE,
                    nodes |-> shape.nodes, imp |-> shape.imp]

Weights(sample) == [j \in 1..Len(sample) |-> sample[j].weight]

SetWeights(sample, w) == [j \in 1..Len(sample) |-> [sample[j] EXCEPT !.weight = w[j]]]

SumWeights(sample) == SumSeq(Weights(sample))

\* the value of a member or local that nothing has set yet
Indeterminate == <<0, -1>>

\* what the last call returned: nothing yet, a double, a vector (the copy of
\* fVariableImportance), or the exit it ended the process with; scores are
\* the values DecisionTree::CheckEvent returned to the call
NoReturn == [kind |-> "none", val |-> Indeterminate, scores |-> <<>>]

Returned(v) == [kind |-> "double", val |-> v, scores |-> <<>>]

Scored(v, scores) == [kind |-> "mva", val |-> v, scores |-> scores]

ReturnedVector == [kind |-> "vector", val |-> Indeterminate, scores |-> <<>>]

Exited(why) == [kind |-> why, val |-> Indeterminate, scores |-> <<>>]

VARIABLES
    fEventSample,         \* vector<Event*>: [weight, isSignal] per event
    fForest,              \* vector<DecisionTree*>
    fBoostWeights,        \* vector<double>: the round weight of each tree
    fNTrees,              \* option NTrees
    fBoostType,           \* option BoostType
    fUseWeightedTrees,    \* option UseWeightedTrees
    fVariableImportance,  \* vector<Double_t> member filled by GetVariableImportance
    fBoostWeight,         \* monitoring: the boost weight of the last AdaBoost
    fErrorFraction,       \* monitoring: the error fraction of the last AdaBoost
    fITree,               \* monitoring: the round index
    fNnodes,              \* monitoring: the node count
    fMonitorNtuple,       \* the records filled so far
    fBoostWeightHist,     \* the values filled so far
    fErrFractHist,        \* the (x, y) pairs filled so far
    sanity,               \* what CheckSanity() returns
    seeds,                \* TRandom: the sequence each seed used so far generates
    pc,                   \* the statement the running call is at; "idle": none
    itree,                \* the running loop's counter
    ret,                  \* the value the last call returned
    stream,               \* the weight file: the tokens written
    istr,                 \* the stream as ReadWeightsFromStream left it
    allTrees,             \* the TTrees in memory: name, branches, friends
    analysedTrees,        \* std::set<TTree *>: the trees analysed so far
    bNamesReg,            \* std::set<std::string>: the registry of names
    bNames,               \* ColumnNames_t: the names in the order found
    frames,               \* the calls of the Impl function that have not returned
    running,              \* the function collecting names; "none", "returned"
    visited               \* history: the trees whose branches were read, in order

vars == <<fEventSample, fForest, fBoostWeights, fNTrees, fBoostType,
          fUseWeightedTrees, fVariableImportance, fBoostWeight, fErrorFraction,
          fITree, fNnodes, fMonitorNtuple, fBoostWeightHist, fErrFractHist,
          sanity, seeds, pc, itree, ret, stream, istr,
          allTrees, analysedTrees, bNamesReg, bNames, frames, running, visited>>

\* the state of the decision-tree ensemble
ensemble == <<fEventSample, fForest, fBoostWeights, fNTrees, fBoostType,
              fUseWeightedTrees, fVariableImportance, fBoostWeight,
              fErrorFraction, fITree, fNnodes, fMonitorNtuple, fBoostWeightHist,
              fErrFractHist, sanity, seeds, pc, itree, ret, stream, istr>>

\* the state of the collection of branch names
collection == <<allTrees, analysedTrees, bNamesReg, bNames, frames, running,
                visited>>

options == <<fNTrees, fBoostType, fUseWeightedTrees, sanity>>

monitor == <<fBoostWeight, fErrorFraction, fITree, fNnodes, fMonitorNtuple,
             fBoostWeightHist, fErrFractHist>>

files == <<stream, istr>>

(***************************************************************************)
(* AdaBoost                                                                *)
(***************************************************************************)
\* line 360: the tree calls an event signal when its score is above 0.5
IsSignalType(score) == Gt(score, Q(1, 2))

\* lines 359-371: correctSelected, from the tree's score of each event
CorrectSelected(sample, scores) ==
    [j \in 1..Len(sample) |-> IsSignalType(scores[j]) = sample[j].isSignal]

RECURSIVE SumFalse(_, _)
\* lines 366-368: sumwfalse, the weight of the misclassified events
SumFalse(w, correct) ==
    IF w = <<>> THEN Zero
    ELSE LET n == Len(w)
             rest == SumFalse(SubSeq(w, 1, n - 1), SubSeq(correct, 1, n - 1))
         IN  IF correct[n] THEN rest ELSE Add(rest, w[n])

\* the boost weight for adaBoostBeta = 2: ((1-err)/err)^2
BoostWeightSquared(err) ==
    IF Gt(err, Zero)
    THEN Mul(Div(Add(One, Neg(err)), err), Div(Add(One, Neg(err)), err))
    ELSE Z(1000)

\* the boost weight of a round no better than guessing clamped to 1
BoostWeightClamped(err) ==
    IF Gt(err, Q(1, 2)) THEN One
    ELSE IF Gt(err, Zero) THEN Div(Add(One, Neg(err)), err) ELSE Z(1000)

\* the boost weight upside down: err/(1-err)
BoostWeightInverse(err) ==
    IF Gt(err, Zero) THEN Div(err, Add(One, Neg(err))) ELSE Z(1000)

\* lines 377-387
BoostWeightOf(err) ==
    IF Gt(err, Zero) THEN Div(Add(One, Neg(err)), err) ELSE Z(1000)

\* lines 389-395: the misclassified events' weights times boostWeight
Boosted(w, correct, boostWeight) ==
    [j \in 1..Len(w) |-> IF correct[j] THEN w[j] ELSE Mul(w[j], boostWeight)]

\* lines 397-400: re-normalise the weights
Renormalised(w, sumw, newSumw) ==
    [j \in 1..Len(w) |-> DivRounded(MulRounded(w[j], sumw), newSumw)]

\* lines 342-409: everything one AdaBoost call computes
AdaBoostPass(sample, scores) ==
    LET w           == Weights(sample)
        correct     == CorrectSelected(sample, scores)
        sumw        == SumSeq(w)
        sumwfalse   == SumFalse(w, correct)
        err         == Div(sumwfalse, sumw)
        boostWeight == BoostWeightOf(err)
        boosted     == Boosted(w, correct, boostWeight)
        newSumw     == SumSeq(boosted)
    IN  [sample      |-> SetWeights(sample, Renormalised(boosted, sumw, newSumw)),
         correct     |-> correct,
         sumw        |-> sumw,
         sumwfalse   |-> sumwfalse,
         err         |-> err,
         boostWeight |-> boostWeight,
         newSumw     |-> newSumw,
         ret         |-> Log(boostWeight)]

(***************************************************************************)
(* Bagging                                                                 *)
(***************************************************************************)
\* lines 416-427: the weights after one Bagging call that drew rnd
BaggingPass(sample, rnd) ==
    LET raw     == [j \in 1..Len(sample) |-> rnd[j]]
        newSumw == SumSeq(raw)
    IN  [sample  |-> SetWeights(sample,
                        [j \in 1..Len(sample) |->
                            DivRounded(MulRounded(raw[j], Z(Len(sample))),
                                       newSumw)]),
         newSumw |-> newSumw,
         ret     |-> One]

(***************************************************************************)
(* The weight file: a sequence of whitespace-separated tokens.  A token is *)
(* a word, a number, or the text DecisionTree::Print writes for one tree.  *)
(***************************************************************************)
Stump == [nodes |-> 1, imp |-> [v \in 1..NVar |-> 0]]

Word(w) == [t |-> "word", s |-> w, n |-> Zero, tree |-> Stump]

Num(x) == [t |-> "num", s |-> "", n |-> x, tree |-> Stump]

TreeText(shape) == [t |-> "tree", s |-> "", n |-> Zero, tree |-> shape]

RECURSIVE Pow10(_)
Pow10(k) == IF k = 0 THEN 1 ELSE 10 * Pow10(k - 1)

RECURSIVE DigitsOf(_)
\* the number of decimal digits of the integer m >= 1
DigitsOf(m) == IF m < 10 THEN 1 ELSE 1 + DigitsOf(m \div 10)

\* the e with 10^e <= a < 10^(e+1), for a finite a > 0
Exponent10(a) ==
    IF a[1] >= a[2] THEN DigitsOf(a[1] \div a[2]) - 1
    ELSE LET c == (a[2] + a[1] - 1) \div a[1]       \* the ceiling of 1/a
         IN  IF c = Pow10(DigitsOf(c) - 1) THEN 1 - DigitsOf(c) ELSE -DigitsOf(c)

\* the nearest integer to the finite a >= 0
Rounded(a) == (2 * a[1] + a[2]) \div (2 * a[2])

\* ostream << double at the default precision: six significant digits
SixDigits(a) ==
    IF a[1] = 0 THEN a
    ELSE LET m     == Q(Abs(a[1]), a[2])
             shift == 5 - Exponent10(m)
             sgn   == Sign(a[1])
         IN  IF shift >= 0
             THEN Q(sgn * Rounded(Mul(m, Z(Pow10(shift)))), Pow10(shift))
             ELSE Z(sgn * Rounded(Div(m, Z(Pow10(-shift)))) * Pow10(-shift))

\* line 436: o << fBoostWeights[i]
FormatDouble(a) ==
    IF IsNaN(a) THEN Word("nan")
    ELSE IF a = PInf THEN Word("inf")
    ELSE IF a = NInf THEN Word("-inf")
    ELSE Num(SixDigits(a))

\* lines 434-438: what WriteWeightsToStream writes for the forest
RECURSIVE Written(_, _, _)
Written(forest, weights, i) ==
    IF i >= Len(forest) THEN <<>>
    ELSE <<Word("-999"), Word("*******Tree"), Num(Z(i)), Word("boostWeight"),
           FormatDouble(weights[i + 1]),
           TreeText([nodes |-> forest[i + 1].nodes, imp |-> forest[i + 1].imp])>>
         \o Written(forest, weights, i + 1)

WrittenFile(forest, weights) ==
    <<Word("NTrees="), Num(Z(Len(forest)))>> \o Written(forest, weights, 0)

\* an input stream: the tokens still to read, and its failbit
Opened(toks) == [toks |-> toks, fail |-> FALSE]

Failed(is) == [is EXCEPT !.fail = TRUE]

\* a failed extraction sets the target to 0 (C++11) or leaves it (C++98)
OnFail(old, zero, zeroOnFail) == IF zeroOnFail THEN zero ELSE old

\* istr >> TString
ExtractString(is) ==
    IF is.fail \/ is.toks = <<>> THEN Failed(is)
    ELSE [is EXCEPT !.toks = Tail(is.toks)]

\* istr >> Int_t: [is, val]; of a number that is no integer the digits
\* before the point are read
ExtractInt(is, old, zeroOnFail) ==
    IF is.fail \/ is.toks = <<>> \/ Head(is.toks).t # "num"
    THEN [is |-> Failed(is), val |-> OnFail(old, 0, zeroOnFail)]
    ELSE LET x == Head(is.toks).n
             whole == Sign(x[1]) * (Abs(x[1]) \div x[2])
         IN  [is  |-> [is EXCEPT !.toks = IF x[2] = 1 THEN Tail(is.toks)
                                          ELSE <<Word(".")>> \o Tail(is.toks)],
              val |-> whole]

\* istr >> Double_t: [is, val]
ExtractDouble(is, old, zeroOnFail) ==
    IF is.fail \/ is.toks = <<>> \/ Head(is.toks).t # "num"
    THEN [is |-> Failed(is), val |-> OnFail(old, Zero, zeroOnFail)]
    ELSE [is |-> [is EXCEPT !.toks = Tail(is.toks)], val |-> Head(is.toks).n]

\* DecisionTreeNode::ReadRec: [is, shape].  It reads the nodes of one tree
\* and, as the depth and position of a next node, the two words that start
\* the next tree's line; of a stream that holds no tree here the node stays
\* as its constructor made it, a root alone
ReadRec(is) ==
    IF is.fail \/ is.toks = <<>> \/ Head(is.toks).t # "tree"
    THEN [is |-> Failed(is), shape |-> Stump]
    ELSE [is    |-> ExtractString(ExtractString(
                        [is EXCEPT !.toks = Tail(is.toks)])),
          shape |-> Head(is.toks).tree]

RECURSIVE ReadLoop(_, _, _, _, _, _, _, _)
\* lines 459-472: [ok, i, forest, weights, is]; ok is false when the loop
\* ended in exit(1) at entry i
ReadLoop(i, n, is, iTree, boostWeight, forest, weights, env) ==
    IF i >= n
    THEN [ok |-> TRUE, i |-> i, forest |-> forest, weights |-> weights, is |-> is]
    ELSE LET e1 == ExtractInt(is, iTree, env.zeroOnFail)
             e2 == ExtractString(e1.is)
             e3 == ExtractDouble(e2, boostWeight, env.zeroOnFail)
             t  == ReadRec(e3.is)
         IN  IF e1.val # i
             THEN [ok |-> FALSE, i |-> i, forest |-> forest,
                   weights |-> weights, is |-> e3.is]
             ELSE ReadLoop(i + 1, n, t.is, e1.val, e3.val,
                           Append(forest, ReadTree(t.shape)),
                           Append(weights, e3.val), env)

\* the clearing left out
Kept(list) == list

\* lines 453-455: the trees are deleted, the forest and the weights cleared
Cleared(list) == <<>>

\* the entries read are dropped again when the indices mismatch
ReadPassRollback(toks, nTreesBefore, forestBefore, weightsBefore, env) ==
    LET e1 == ExtractInt(ExtractString(Opened(toks)), nTreesBefore, env.zeroOnFail)
        is == ExtractString(ExtractString(e1.is))
        r  == ReadLoop(0, e1.val, is, env.iTree, env.boostWeight,
                       Cleared(forestBefore), Cleared(weightsBefore), env)
    IN  [ok |-> r.ok, i |-> r.i, fNTrees |-> e1.val,
         forest |-> IF r.ok THEN r.forest ELSE <<>>,
         weights |-> IF r.ok THEN r.weights ELSE <<>>, is |-> r.is]

\* lines 450-472: [ok, i, fNTrees, forest, weights, is]
ReadPass(toks, nTreesBefore, forestBefore, weightsBefore, env) ==
    LET e1 == ExtractInt(ExtractString(Opened(toks)), nTreesBefore, env.zeroOnFail)
        is == ExtractString(ExtractString(e1.is))
        r  == ReadLoop(0, e1.val, is, env.iTree, env.boostWeight,
                       Cleared(forestBefore), Cleared(weightsBefore), env)
    IN  [ok |-> r.ok, i |-> r.i, fNTrees |-> e1.val, forest |-> r.forest,
         weights |-> r.weights, is |-> r.is]

\* what the build and the stack leave in a local that no extraction set
ReadEnvs == [zeroOnFail : BOOLEAN, iTree : 0..MaxTrees,
             boostWeight : {Zero, One}]

(***************************************************************************)
(* Construction (lines 109-168, 223-238, 249-270)                          *)
(***************************************************************************)
Events == [weight : {Z(w) : w \in 0..MaxWeight}, isSignal : BOOLEAN]

Samples == UNION {[1..n -> Events] : n \in 1..MaxEvents}

TrainSamples == {sample \in Samples : Len(sample) <= MaxTrainEvents}

BoostTypes == {"AdaBoost", "Bagging", "Unknown"}

\* the members the constructors leave as they are
\* no tree is in memory and no names are collected
NotCollecting ==
    /\ allTrees = <<>>
    /\ analysedTrees = {}
    /\ bNamesReg = {}
    /\ bNames = <<>>
    /\ frames = <<>>
    /\ running = "none"
    /\ visited = <<>>

Constructed ==
    /\ fForest = <<>>
    /\ fBoostWeights = <<>>
    /\ fVariableImportance = <<>>
    /\ fBoostWeight = Indeterminate
    /\ fErrorFraction = Indeterminate
    /\ fITree = Indeterminate
    /\ fNnodes = Indeterminate
    /\ fMonitorNtuple = <<>>
    /\ fBoostWeightHist = <<>>
    /\ fErrFractHist = <<>>
    /\ seeds = <<>>
    /\ pc = "idle"
    /\ itree = 0
    /\ ret = NoReturn
    /\ stream = <<>>
    /\ istr = Opened(<<>>)

\* the training constructor
Init ==
    /\ Constructed
    /\ NotCollecting
    /\ fEventSample \in TrainSamples
    /\ fNTrees \in 1..MaxTrees
    /\ fBoostType \in BoostTypes
    /\ fUseWeightedTrees = TRUE
    /\ sanity \in BOOLEAN

(***************************************************************************)
(* Train (lines 273-324), one action per statement group of a round        *)
(***************************************************************************)
\* lines 276-286: the sanity check, then the loop is entered (fMonitorNtuple
\* holds one record per round trained so far)
TrainEnter ==
    /\ pc = "idle"
    /\ Len(fEventSample) > 0
    /\ Len(fMonitorNtuple) + fNTrees <= MaxTrees
    /\ IF sanity THEN pc' = "loop" /\ itree' = 0 /\ ret' = NoReturn
                 ELSE pc' = "exit" /\ ret' = Exited("sanity") /\ UNCHANGED itree
    /\ UNCHANGED <<fEventSample, fForest, fBoostWeights, fVariableImportance,
                   options, monitor, seeds, files>>
    /\ UNCHANGED collection

\* lines 286-290: the loop test, and the round's new tree joins the forest
TrainLoop ==
    /\ pc = "loop"
    /\ IF itree < fNTrees
       THEN /\ fForest' = Append(fForest, NewTree)
            /\ pc' = "build"
       ELSE /\ pc' = "idle"
            /\ UNCHANGED fForest
    /\ UNCHANGED <<fEventSample, fBoostWeights, fVariableImportance, options,
                   monitor, seeds, itree, ret, files>>
    /\ UNCHANGED collection

Last(s) == s[Len(s)]

SetLast(s, x) == [s EXCEPT ![Len(s)] = x]

\* lines 304-306: BuildTree on the sample as it is now
TrainBuild ==
    /\ pc = "build"
    /\ \E shape \in Shapes :
          /\ fForest' = SetLast(fForest, [Last(fForest) EXCEPT
                  !.built = TRUE, !.nodes = shape.nodes, !.imp = shape.imp])
          /\ fNnodes' = shape.nodes
    /\ pc' = "prune"
    /\ UNCHANGED <<fEventSample, fBoostWeights, fVariableImportance, options,
                   fBoostWeight, fErrorFraction, fITree, fMonitorNtuple,
                   fBoostWeightHist, fErrFractHist, seeds, itree, ret, files>>
    /\ UNCHANGED collection

\* lines 307-309: PruneTree, CountNodes
TrainPrune ==
    /\ pc = "prune"
    /\ \E shape \in {sh \in Shapes : \/ sh.nodes = 1
                                     \/ sh.imp = Last(fForest).imp} :
          /\ fForest' = SetLast(fForest, [Last(fForest) EXCEPT
                  !.pruned = TRUE, !.nodes = shape.nodes, !.imp = shape.imp])
          /\ fNnodes' = shape.nodes
    /\ pc' = "boost"
    /\ UNCHANGED <<fEventSample, fBoostWeights, fVariableImportance, options,
                   fBoostWeight, fErrorFraction, fITree, fMonitorNtuple,
                   fBoostWeightHist, fErrFractHist, seeds, itree, ret, files>>
    /\ UNCHANGED collection

\* an AdaBoost call whose weight changes stay in a copy of the sample
AdaBoostOnCopy ==
    /\ \E scores \in [1..Len(fEventSample) -> TreeScores] :
          LET r == AdaBoostPass(fEventSample, scores)
          IN  /\ fEventSample' = fEventSample
              /\ fBoostWeightHist' = Append(fBoostWeightHist, r.boostWeight)
              /\ fErrFractHist' = Append(fErrFractHist, <<Len(fForest), r.err>>)
              /\ fBoostWeight' = r.boostWeight
              /\ fErrorFraction' = r.err
              /\ ret' = Returned(r.ret)
    /\ UNCHANGED seeds

\* lines 342-409: one AdaBoost call on the sample, whatever the tree scores
AdaBoost ==
    /\ \E scores \in [1..Len(fEventSample) -> TreeScores] :
          LET r == AdaBoostPass(fEventSample, scores)
          IN  /\ fEventSample' = r.sample
              /\ fBoostWeightHist' = Append(fBoostWeightHist, r.boostWeight)
              /\ fErrFractHist' = Append(fErrFractHist, <<Len(fForest), r.err>>)
              /\ fBoostWeight' = r.boostWeight
              /\ fErrorFraction' = r.err
              /\ ret' = Returned(r.ret)
    /\ UNCHANGED seeds

\* a generator that does not depend on its seed
GeneratedAfresh(seed, n) == [1..n -> RndmValues]

\* TRandom(seed): the first n values of the sequence the seed generates
Generated(seed, n) ==
    IF seed + 1 \in DOMAIN seeds THEN {SubSeq(seeds[seed + 1], 1, n)}
    ELSE [1..n -> RndmValues]

\* lines 412-428: one Bagging call on the sample
Bagging(iTree) ==
    /\ \E rnd \in Generated(iTree, Len(fEventSample)) :
          LET r == BaggingPass(fEventSample, rnd)
          IN  /\ fEventSample' = r.sample
              /\ ret' = Returned(r.ret)
              /\ seeds' = IF iTree + 1 \in DOMAIN seeds THEN seeds
                          ELSE Append(seeds, rnd)
    /\ UNCHANGED <<fBoostWeightHist, fErrFractHist, fBoostWeight, fErrorFraction>>

\* line 310, the call: Boost (lines 327-339); an unknown boost option ends
\* the process
TrainBoost ==
    /\ pc = "boost"
    /\ IF fBoostType = "AdaBoost" THEN AdaBoost /\ pc' = "record"
       ELSE IF fBoostType = "Bagging" THEN Bagging(itree) /\ pc' = "record"
       ELSE /\ pc' = "exit"
            /\ ret' = Exited("boost")
            /\ UNCHANGED <<fEventSample, fBoostWeightHist, fErrFractHist,
                           fBoostWeight, fErrorFraction, seeds>>
    /\ UNCHANGED <<fForest, fBoostWeights, fVariableImportance, options,
                   fITree, fNnodes, fMonitorNtuple, itree, files>>
    /\ UNCHANGED collection

\* the boost weight is stored in place of the value Boost returned
TrainRecordBoostWeight ==
    /\ pc = "record"
    /\ fBoostWeights' = Append(fBoostWeights, fBoostWeight)
    /\ fITree' = itree
    /\ fMonitorNtuple' = Append(fMonitorNtuple,
            [iTree |-> itree, boostWeight |-> fBoostWeight,
             errorFraction |-> fErrorFraction, nNodes |-> fNnodes])
    /\ itree' = itree + 1
    /\ pc' = "loop"
    /\ UNCHANGED <<fEventSample, fForest, fVariableImportance, options,
                   fBoostWeight, fErrorFraction, fNnodes, fBoostWeightHist,
                   fErrFractHist, seeds, ret, files>>
    /\ UNCHANGED collection

\* lines 310-313: the returned round weight is stored, the round is recorded
TrainRecord ==
    /\ pc = "record"
    /\ fBoostWeights' = Append(fBoostWeights, ret.val)
    /\ fITree' = itree
    /\ fMonitorNtuple' = Append(fMonitorNtuple,
            [iTree |-> itree, boostWeight |-> fBoostWeight,
             errorFraction |-> fErrorFraction, nNodes |-> fNnodes])
    /\ itree' = itree + 1
    /\ pc' = "loop"
    /\ UNCHANGED <<fEventSample, fForest, fVariableImportance, options,
                   fBoostWeight, fErrorFraction, fNnodes, fBoostWeightHist,
                   fErrFractHist, seeds, ret, files>>
    /\ UNCHANGED collection

Train == TrainEnter \/ TrainLoop \/ TrainBuild \/ TrainPrune \/ TrainBoost \/ TrainRecord

(***************************************************************************)
(* Persistence (lines 431-473)                                             *)
(***************************************************************************)
\* lines 431-439
WriteWeightsToStream ==
    /\ pc = "idle"
    /\ stream' = WrittenFile(fForest, fBoostWeights)
    /\ ret' = NoReturn
    /\ UNCHANGED <<fEventSample, fForest, fBoostWeights, fVariableImportance,
                   options, monitor, seeds, pc, itree, istr>>
    /\ UNCHANGED collection

\* the places of the tree indices in a weight file
IndexPlaces(toks) ==
    {p \in 2..Len(toks) : toks[p - 1].t = "word" /\ toks[p - 1].s = "*******Tree"}

\* the file is as WriteWeightsToStream writes it: tree i carries index i
Sequential(toks) ==
    \A p \in IndexPlaces(toks) :
        toks[p].n = Z(Cardinality({q \in IndexPlaces(toks) : q < p}))

\* the weight file is damaged between writing and reading: one tree index is
\* replaced by another number
CorruptFile ==
    /\ pc = "idle"
    /\ Sequential(stream)
    /\ \E p \in IndexPlaces(stream), v \in 0..MaxTrees :
          /\ stream[p].n # Z(v)
          /\ stream' = [stream EXCEPT ![p] = Num(Z(v))]
    /\ UNCHANGED <<fEventSample, fForest, fBoostWeights, fVariableImportance,
                   options, monitor, seeds, pc, itree, ret, istr>>
    /\ UNCHANGED collection

\* lines 442-473, on a weight file that was written
ReadWeightsFromStream ==
    /\ pc = "idle"
    /\ stream # <<>>
    /\ \E env \in ReadEnvs :
          LET r == ReadPass(stream, fNTrees, fForest, fBoostWeights, env)
          IN  /\ fNTrees' = r.fNTrees
              /\ fForest' = r.forest
              /\ fBoostWeights' = r.weights
              /\ istr' = r.is
              /\ itree' = r.i
              /\ IF r.ok THEN pc' = "idle" /\ ret' = NoReturn
                         ELSE pc' = "exit" /\ ret' = Exited("mismatch")
    /\ UNCHANGED <<fEventSample, fVariableImportance, fBoostType,
                   fUseWeightedTrees, sanity, monitor, seeds, stream>>
    /\ UNCHANGED collection

(***************************************************************************)
(* GetMvaValue (lines 476-500)                                             *)
(***************************************************************************)
\* what DecisionTree::CheckEvent may return for the event to classify
EvalScores == {Zero, Q(2, 5), Q(4, 5), One}

RECURSIVE MvaSums(_, _, _, _)
\* lines 486-498: [myMVA, norm] after the first n trees
MvaSums(weights, scores, weighted, n) ==
    IF n = 0 THEN [myMVA |-> Zero, norm |-> Zero]
    ELSE LET prev == MvaSums(weights, scores, weighted, n - 1)
         IN  IF weighted
             THEN [myMVA |-> Add(prev.myMVA, Mul(weights[n], scores[n])),
                   norm  |-> Add(prev.norm, weights[n])]
             ELSE [myMVA |-> Add(prev.myMVA, scores[n]),
                   norm  |-> Add(prev.norm, One)]

\* the normalisation left out
MvaValueUnnormalised(weights, scores, weighted) ==
    MvaSums(weights, scores, weighted, Len(scores)).myMVA

\* lines 486-499: what GetMvaValue returns
MvaValue(weights, scores, weighted) ==
    LET sums == MvaSums(weights, scores, weighted, Len(scores))
    IN  Div(sums.myMVA, sums.norm)

GetMvaValue ==
    /\ pc = "idle"
    /\ \E scores \in [1..Len(fForest) -> EvalScores] :
          ret' = Scored(MvaValue(fBoostWeights, scores, fUseWeightedTrees), scores)
    /\ UNCHANGED <<fEventSample, fForest, fBoostWeights, fVariableImportance,
                   options, monitor, seeds, pc, itree, files>>
    /\ UNCHANGED collection

(***************************************************************************)
(* GetVariableImportance (lines 517-536)                                   *)
(***************************************************************************)
\* line 524: vector::resize keeps the entries there are, new ones are 0
Resized(v, n) == [i \in 1..n |-> IF i <= Len(v) THEN v[i] ELSE Zero]

RECURSIVE Accumulated(_, _, _)
\* lines 526-531: the member after the first n trees of the forest were
\* added to it
Accumulated(member, forest, n) ==
    IF n <= 0 THEN member
    ELSE LET prev == Accumulated(member, forest, n - 1)
             imp  == forest[n].imp
         IN  [i \in 1..Len(prev) |->
                 IF i <= Len(imp) THEN Add(prev[i], Z(imp[i])) ELSE prev[i]]

\* line 527 past the end of the forest: the pointer read is whatever the
\* memory holds, here the same tree count times
PastTheEnd(member, count, junk) ==
    [i \in 1..Len(member) |->
        IF i <= Len(junk.imp) THEN Add(member[i], Z(count * junk.imp[i]))
                              ELSE member[i]]

\* lines 532-533: every entry divided by the sum of the entries
Normalised(v) == [i \in 1..Len(v) |-> Div(v[i], SumSeq(v))]

\* lines 524-535: the member when GetVariableImportance returns
ImportancePass(member, forest, nTrees, junk) ==
    IF nTrees <= Len(forest)
    THEN Normalised(Accumulated(Resized(member, NVar), forest, nTrees))
    ELSE Normalised(PastTheEnd(
             Accumulated(Resized(member, NVar), forest, Len(forest)),
             nTrees - Len(forest), junk))

Precise(v) == \A i \in 1..Len(v) : v[i][2] <= MaxDenominator

\* with fNTrees above the size of the forest, line 527 reads past its end:
\* the call ends the process there, or goes on with what it read
GetVariableImportance ==
    /\ pc = "idle"
    /\ Precise(fVariableImportance)
    /\ \/ /\ \E junk \in IF fNTrees <= Len(fForest) THEN {Stump} ELSE Shapes :
                fVariableImportance' =
                    ImportancePass(fVariableImportance, fForest, fNTrees, junk)
          /\ ret' = ReturnedVector
          /\ pc' = pc
       \/ /\ fNTrees > Len(fForest)
          /\ fVariableImportance' =
                Accumulated(Resized(fVariableImportance, NVar), fForest,
                            Len(fForest))
          /\ ret' = Exited("segv")
          /\ pc' = "exit"
    /\ UNCHANGED <<fEventSample, fForest, fBoostWeights, options, monitor,
                   seeds, itree, files>>
    /\ UNCHANGED collection

\* lines 538-547: GetVariableImportance(UInt_t ivar) calls
\* GetVariableImportance() and returns entry ivar of its copy, or ends the
\* process when ivar is out of range
GetVariableImportanceIvar ==
    /\ pc = "idle"
    /\ Precise(fVariableImportance)
    /\ \E ivar \in 0..NVar :
          \/ \E junk \in IF fNTrees <= Len(fForest) THEN {Stump} ELSE Shapes :
                LET v == ImportancePass(fVariableImportance, fForest, fNTrees, junk)
                IN  /\ fVariableImportance' = v
                    /\ IF ivar < Len(v)
                       THEN ret' = Returned(v[ivar + 1]) /\ pc' = pc
                       ELSE ret' = Exited("range") /\ pc' = "exit"
          \/ /\ fNTrees > Len(fForest)
             /\ fVariableImportance' =
                   Accumulated(Resized(fVariableImportance, NVar), fForest,
                               Len(fForest))
             /\ ret' = Exited("segv")
             /\ pc' = "exit"
    /\ UNCHANGED <<fEventSample, fForest, fBoostWeights, options, monitor,
                   seeds, itree, files>>
    /\ UNCHANGED collection

(***************************************************************************)
(* The application: an ensemble made by the weight file constructor (lines *)
(* 160-168), the weight files it is given                                  *)
(***************************************************************************)
\* the trees of the weight files: what was written of a tree and its weight
EvalTrees ==
    {[shape |-> Stump, weight |-> Z(2)],
     [shape |-> [nodes |-> 3, imp |-> [v \in 1..NVar |-> IF v = 1 THEN 1 ELSE 0]],
      weight |-> Z(3)],
     [shape |-> [nodes |-> 3, imp |-> [v \in 1..NVar |-> IF v = NVar THEN 1 ELSE 0]],
      weight |-> SixDigits(Log(Q(1, 2)))],
     [shape |-> Stump, weight |-> Zero]}

EvalFiles ==
    {WrittenFile([i \in 1..Len(trees) |-> trees[i].shape],
                 [i \in 1..Len(trees) |-> trees[i].weight]) :
        trees \in UNION {[1..k -> EvalTrees] : k \in 0..MaxEvalTrees}}

\* the application is given a weight file, longer than the one before
SupplyFile ==
    /\ pc = "idle"
    /\ \E file \in EvalFiles :
          /\ Len(file) > Len(stream)
          /\ stream' = file
    /\ UNCHANGED <<fEventSample, fForest, fBoostWeights, fVariableImportance,
                   options, monitor, seeds, pc, itree, ret, istr>>
    /\ UNCHANGED collection

InitEval ==
    /\ Constructed
    /\ NotCollecting
    /\ fEventSample = <<>>
    /\ fNTrees = DefaultNTrees
    /\ fBoostType = "AdaBoost"
    /\ fUseWeightedTrees \in BOOLEAN
    /\ sanity = TRUE

NextEval ==
    \/ SupplyFile
    \/ ReadWeightsFromStream
    \/ GetMvaValue
    \/ GetVariableImportance
    \/ GetVariableImportanceIvar

Next == Train

\* the training constructor, with one sample: event j has weight j, the
\* first event is signal
InitLife ==
    /\ Constructed
    /\ NotCollecting
    /\ fEventSample = [j \in 1..MaxTrainEvents |->
                          [weight |-> Z(j), isSignal |-> j = 1]]
    /\ fNTrees \in 1..MaxTrees
    /\ fBoostType \in {"AdaBoost", "Bagging"}
    /\ fUseWeightedTrees = TRUE
    /\ sanity = TRUE

NextLife == Train \/ WriteWeightsToStream \/ CorruptFile \/ ReadWeightsFromStream

Spec == Init /\ [][Next]_vars

\* training, writing, damaging and reading the weight file, in any order
SpecLife == InitLife /\ [][NextLife]_vars

NextScore == Train \/ GetMvaValue

\* events are classified by the ensemble that trains
SpecScore == InitLife /\ [][NextScore]_vars

\* the application: weight files read, events classified, variables ranked
SpecEval == InitEval /\ [][NextEval]_vars

(***************************************************************************)
(* GetBranchNames and GetTopLevelBranchNames                               *)
(* (src/tree/treeplayer/src/TDFInterfaceUtils.cxx, lines 53-203).          *)
(* A name is the sequence of its dot-separated parts: "b.x" is <<"b","x">>,*)
(* "b." is <<"b","">>, and a + "." + b is a \o b.  A prefix "b." is kept   *)
(* without its last, empty part, so that prefix + name is prefix \o name.  *)
(* A branch is a TBranch with its leaves, a TBranchElement with its        *)
(* sub-branches, or an object of another class derived from TBranch.       *)
(***************************************************************************)
\* the trees in memory are 1..MaxTTrees
MaxTTrees == 2

\* a tree has 0..MaxFriends friend elements
MaxFriends == 2

\* TTree::GetName of tree k
GetName(k) == IF k % 2 = 1 THEN "a" ELSE "b"

\* a TBranch (leaf list) and its leaves
LeafList(name, leaves) ==
    [class |-> "TBranch", name |-> name, leaves |-> leaves,
     dotIsImplied |-> FALSE, subBranches |-> <<>>]

\* a TBranchElement and its sub-branches; dotIsImplied: GetType() is 3 or 4
Element(name, dotIsImplied, subBranches) ==
    [class |-> "TBranchElement", name |-> name, leaves |-> <<>>,
     dotIsImplied |-> dotIsImplied, subBranches |-> subBranches]

\* a branch that is neither: branch->IsA() is another class, and the
\* dynamic_cast to TBranchElement of line 119 gives a null pointer
OtherBranch(name, subBranches) ==
    [class |-> "TBranchObject", name |-> name, leaves |-> <<>>,
     dotIsImplied |-> FALSE, subBranches |-> subBranches]

\* a sub-branch; found: what TTree::GetBranch finds for it, its full name
\* (line 81), its own name (line 83), or neither
SubBranch(name, found, subBranches) ==
    [name |-> name, found |-> found, subBranches |-> subBranches]

\* what GetListOfBranches of a tree may hold
BranchLists ==
    {<<>>,
     <<LeafList(<<"a">>, <<"a">>)>>,
     <<LeafList(<<"b">>, <<"x", "y">>), LeafList(<<"b">>, <<"x", "y">>)>>,
     <<Element(<<"b">>, FALSE,
               <<SubBranch(<<"x">>, "full",
                           <<SubBranch(<<"b", "x", "y">>, "short", <<>>)>>)>>),
       Element(<<"a", "">>, FALSE,
               <<SubBranch(<<"a">>, "full", <<>>),
                 SubBranch(<<"x">>, "none", <<>>)>>)>>,
     <<Element(<<"a">>, TRUE, <<SubBranch(<<"x">>, "full", <<>>)>>),
       OtherBranch(<<"b">>, <<SubBranch(<<"x">>, "full", <<>>)>>)>>}

\* a TFriendElement: the friend tree and its alias ("": no alias)
FriendElements == [tree : 1..MaxTTrees, alias : {"", "b"}]

\* what GetListOfFriends of a tree may hold
FriendLists == UNION {[1..n -> FriendElements] : n \in 0..MaxFriends}

\* the trees in memory, friends of each other in any way
TreeGraphs ==
    {[k \in 1..MaxTTrees |->
         [name |-> GetName(k), branches |-> b[k], friends |-> f[k]]] :
        b \in [1..MaxTTrees -> BranchLists], f \in [1..MaxTTrees -> FriendLists]}

\* the registry and the list, as the functions pass them along
Lists(reg, names) == [reg |-> reg, names |-> names]

\* bNamesReg.insert(name).second, then bNames.push_back(name)
Inserted(l, name) ==
    IF name \in l.reg THEN l
    ELSE Lists(l.reg \cup {name}, Append(l.names, name))

\* lines 53-65
UpdateList(l, branchName, friendName) ==
    Inserted(IF friendName # <<>> THEN Inserted(l, friendName \o branchName)
             ELSE l,
             branchName)

RECURSIVE ExploreBranch(_, _, _, _)
\* lines 67-86: the sub-branches of one branch, first to last
ExploreBranch(l, subBranches, prefix, friendName) ==
    IF subBranches = <<>> THEN l
    ELSE LET sb            == Head(subBranches)
             subBranchName == sb.name
             fullName      == prefix \o subBranchName
             newPrefix     == IF prefix # <<>> THEN fullName ELSE <<>>
             below         == ExploreBranch(l, sb.subBranches, newPrefix, friendName)
             here          == IF sb.found = "full"
                              THEN UpdateList(below, fullName, friendName)
                              ELSE IF sb.found = "short"
                              THEN UpdateList(below, subBranchName, friendName)
                              ELSE below
         IN  ExploreBranch(here, Tail(subBranches), prefix, friendName)

RECURSIVE LeavesListed(_, _, _, _)
\* lines 109-113
LeavesListed(l, branchName, leaves, friendName) ==
    IF leaves = <<>> THEN l
    ELSE LeavesListed(UpdateList(l, branchName \o <<Head(leaves)>>, friendName),
                      branchName, Tail(leaves), friendName)

\* branchName.back() == '.'
EndsWithDot(name) == name[Len(name)] = ""

\* lines 100-130: one branch of the tree; read: what be->GetType() == 3 ||
\* be->GetType() == 4 gives when be is a null pointer and the read returns
BranchListed(l, branch, friendName, read) ==
    LET branchName   == branch.name
        dotIsImplied == IF branch.class = "TBranchElement"
                        THEN branch.dotIsImplied ELSE read
    IN  IF branch.class = "TBranch"
        THEN LeavesListed(IF Len(branch.leaves) = 1
                          THEN UpdateList(l, branchName, friendName) ELSE l,
                          branchName, branch.leaves, friendName)
        ELSE UpdateList(ExploreBranch(l, branch.subBranches,
                                      IF dotIsImplied \/ EndsWithDot(branchName)
                                      THEN <<>> ELSE branchName,
                                      friendName),
                        branchName, friendName)

RECURSIVE BranchesListed(_, _, _, _)
\* lines 96-132: every branch of the tree
BranchesListed(l, branches, friendName, read) ==
    IF branches = <<>> THEN l
    ELSE BranchesListed(BranchListed(l, Head(branches), friendName, read),
                        Tail(branches), friendName, read)

\* line 119 gives a null pointer for a branch of the tree
NullBranchElement(branches) ==
    \E i \in 1..Len(branches) :
        branches[i].class \notin {"TBranch", "TBranchElement"}

RECURSIVE TopLevelListed(_, _)
\* lines 173-181
TopLevelListed(l, branches) ==
    IF branches = <<>> THEN l
    ELSE TopLevelListed(Inserted(l, Head(branches).name), Tail(branches))

\* a call of an Impl function: its tree, its friendName, and the friend
\* element its loop is at (0: the call has just been made)
Frame(t, friendName) == [t |-> t, friendName |-> friendName, at |-> 0]

Top == frames[Len(frames)]

Popped == SubSeq(frames, 1, Len(frames) - 1)

\* the caller's loop moves on, the callee's frame is on top
Called(t, friendName) ==
    Append([frames EXCEPT ![Len(frames)].at = Top.at + 1], Frame(t, friendName))

\* lines 140-147: the alias of the friend, or else the friend tree's name
FriendName(element) ==
    IF element.alias # "" THEN <<element.alias>>
    ELSE <<allTrees[element.tree].name>>

\* lines 155-161: GetBranchNames(t) calls GetBranchNamesImpl
GetBranchNames ==
    /\ running = "none"
    /\ running' = "GetBranchNames"
    /\ bNamesReg' = {}
    /\ bNames' = <<>>
    /\ analysedTrees' = {}
    /\ frames' = <<Frame(1, <<>>)>>
    /\ UNCHANGED <<allTrees, visited>>
    /\ UNCHANGED ensemble

\* lines 92-132: a tree analysed before is left at once; else its branches
\* are listed.  be->GetType() on a null pointer (line 121) is undefined: the
\* read returns some value, or the process ends there
GetBranchNamesImpl ==
    /\ running = "GetBranchNames"
    /\ frames # <<>>
    /\ Top.at = 0
    /\ IF Top.t \in analysedTrees
       THEN /\ frames' = Popped
            /\ UNCHANGED <<analysedTrees, bNamesReg, bNames, visited, running>>
       ELSE \/ \E read \in BOOLEAN :
                 LET l == BranchesListed(Lists(bNamesReg, bNames),
                                         allTrees[Top.t].branches,
                                         Top.friendName, read)
                 IN  /\ analysedTrees' = analysedTrees \cup {Top.t}
                     /\ visited' = Append(visited, Top.t)
                     /\ bNamesReg' = l.reg
                     /\ bNames' = l.names
                     /\ frames' = [frames EXCEPT ![Len(frames)].at = 1]
                     /\ UNCHANGED running
            \/ /\ NullBranchElement(allTrees[Top.t].branches)
               /\ analysedTrees' = analysedTrees \cup {Top.t}
               /\ visited' = Append(visited, Top.t)
               /\ running' = "ended"
               /\ UNCHANGED <<bNamesReg, bNames, frames>>
    /\ UNCHANGED allTrees
    /\ UNCHANGED ensemble

\* lines 134-150: the loop over the friends, one call for each
GetBranchNamesImplFriends ==
    /\ running = "GetBranchNames"
    /\ frames # <<>>
    /\ Top.at >= 1
    /\ IF Top.at <= Len(allTrees[Top.t].friends)
       THEN LET element == allTrees[Top.t].friends[Top.at]
            IN  frames' = Called(element.tree, FriendName(element))
       ELSE frames' = Popped
    /\ UNCHANGED <<allTrees, analysedTrees, bNamesReg, bNames, running, visited>>
    /\ UNCHANGED ensemble

\* line 162
GetBranchNamesReturn ==
    /\ running = "GetBranchNames"
    /\ frames = <<>>
    /\ running' = "returned"
    /\ UNCHANGED <<allTrees, analysedTrees, bNamesReg, bNames, frames, visited>>
    /\ UNCHANGED ensemble

\* lines 196-201: GetTopLevelBranchNames(t) calls GetTopLevelBranchNamesImpl
GetTopLevelBranchNames ==
    /\ running = "none"
    /\ running' = "GetTopLevelBranchNames"
    /\ bNamesReg' = {}
    /\ bNames' = <<>>
    /\ analysedTrees' = {}
    /\ frames' = <<Frame(1, <<>>)>>
    /\ UNCHANGED <<allTrees, visited>>
    /\ UNCHANGED ensemble

\* lines 169-181
GetTopLevelBranchNamesImpl ==
    /\ running = "GetTopLevelBranchNames"
    /\ frames # <<>>
    /\ Top.at = 0
    /\ IF Top.t \in analysedTrees
       THEN /\ frames' = Popped
            /\ UNCHANGED <<analysedTrees, bNamesReg, bNames, visited>>
       ELSE LET l == TopLevelListed(Lists(bNamesReg, bNames),
                                    allTrees[Top.t].branches)
            IN  /\ analysedTrees' = analysedTrees \cup {Top.t}
                /\ visited' = Append(visited, Top.t)
                /\ bNamesReg' = l.reg
                /\ bNames' = l.names
                /\ frames' = [frames EXCEPT ![Len(frames)].at = 1]
    /\ UNCHANGED <<allTrees, running>>
    /\ UNCHANGED ensemble

\* lines 183-191
GetTopLevelBranchNamesImplFriends ==
    /\ running = "GetTopLevelBranchNames"
    /\ frames # <<>>
    /\ Top.at >= 1
    /\ IF Top.at <= Len(allTrees[Top.t].friends)
       THEN frames' = Called(allTrees[Top.t].friends[Top.at].tree, <<>>)
       ELSE frames' = Popped
    /\ UNCHANGED <<allTrees, analysedTrees, bNamesReg, bNames, running, visited>>
    /\ UNCHANGED ensemble

\* line 202
GetTopLevelBranchNamesReturn ==
    /\ running = "GetTopLevelBranchNames"
    /\ frames = <<>>
    /\ running' = "returned"
    /\ UNCHANGED <<allTrees, analysedTrees, bNamesReg, bNames, frames, visited>>
    /\ UNCHANGED ensemble

\* some trees are in memory, friends of each other; no ensemble is in use
InitBranchNames ==
    /\ Constructed
    /\ fEventSample = <<>>
    /\ fNTrees = DefaultNTrees
    /\ fBoostType = "AdaBoost"
    /\ fUseWeightedTrees = FALSE
    /\ sanity = TRUE
    /\ allTrees \in TreeGraphs
    /\ analysedTrees = {}
    /\ bNamesReg = {}
    /\ bNames = <<>>
    /\ frames = <<>>
    /\ running = "none"
    /\ visited = <<>>

NextBranchNames ==
    \/ GetBranchNames
    \/ GetBranchNamesImpl
    \/ GetBranchNamesImplFriends
    \/ GetBranchNamesReturn
    \/ GetTopLevelBranchNames
    \/ GetTopLevelBranchNamesImpl
    \/ GetTopLevelBranchNamesImplFriends
    \/ GetTopLevelBranchNamesReturn

\* one of the two functions is called on tree 1 and runs; a step that can be
\* taken is taken (the call is one sequential computation)
SpecBranchNames ==
    InitBranchNames /\ [][NextBranchNames]_vars /\ WF_vars(NextBranchNames)

(***************************************************************************)
(* The properties                                                          *)
(***************************************************************************)
\* every event weight is a number (not NaN, not infinite) and is >= 0
WeightsWellDefined(sample) ==
    \A j \in 1..Len(sample) :
        IsFinite(sample[j].weight) /\ Le(Zero, sample[j].weight)

AdaBoostRuns == pc = "boost" /\ fBoostType = "AdaBoost"

BaggingRuns == pc = "boost" /\ fBoostType = "Bagging"

\* C1: AdaBoost weight conservation: for a non-empty sample (here even: of
\* non-negative weights with a positive sum) and every classification
\* outcome of the round's tree, the sum of the event weights after one
\* AdaBoost call equals the sum before the call.
C1_AdaBoostConservesSumOfWeights ==
    [][(/\ AdaBoostRuns
        /\ WeightsWellDefined(fEventSample)
        /\ Gt(SumWeights(fEventSample), Zero))
       => Eq(SumWeights(fEventSample'), SumWeights(fEventSample))]_vars

\* C2: Bagging weight normalization: after one Bagging call on a sample of N
\* events the sum of the event weights equals N, whatever the weights were
\* before the call and whatever the round index.
C2_BaggingSumOfWeightsIsN ==
    [][BaggingRuns
       => Eq(SumWeights(fEventSample'), Z(Len(fEventSample)))]_vars

\* C3: every event weight is a well-defined non-negative number in every
\* reachable state.  Stated as the step that keeps it so: an AdaBoost call
\* on well-defined non-negative weights of positive sum leaves every event
\* weight well-defined and non-negative.
C3_WeightsStayWellDefined ==
    [][(/\ AdaBoostRuns
        /\ WeightsWellDefined(fEventSample)
        /\ Gt(SumWeights(fEventSample), Zero))
       => WeightsWellDefined(fEventSample')]_vars

\* the tree as the weight file holds it
ShapeOf(tree) == [nodes |-> tree.nodes, imp |-> tree.imp]

AllRead(forest) == \A i \in 1..Len(forest) : forest[i].origin = "read"

\* C4: persistence round trip: for a forest of k trees, reading the stream
\* that WriteWeightsToStream wrote for it ends normally with a forest of
\* exactly k entries, in the same order, entry i holding the tree and the
\* round weight that were written for tree i.
C4_RoundTrip ==
    [][(/\ ReadWeightsFromStream
        /\ Len(fForest) > 0
        /\ stream = WrittenFile(fForest, fBoostWeights))
       => /\ pc' = "idle"
          /\ Len(fForest') = Len(fForest)
          /\ Len(fBoostWeights') = Len(fForest)
          /\ \A i \in 1..Len(fForest) :
                /\ ShapeOf(fForest'[i]) = ShapeOf(fForest[i])
                /\ Num(fBoostWeights'[i]) = FormatDouble(fBoostWeights[i])]_vars

MismatchExit == pc = "exit" /\ ret = Exited("mismatch")

\* C5: when the index read for entry i differs from i,
\* ReadWeightsFromStream ends the process at that entry; the earlier forest
\* is gone, and the forest and the weight list hold exactly the entries
\* 0..i-1 read so far.
C5_MismatchLeavesEntriesRead ==
    /\ [][(ReadWeightsFromStream /\ ~Sequential(stream)) => MismatchExit']_vars
    /\ [](MismatchExit => /\ Len(fForest) = itree
                          /\ Len(fBoostWeights) = itree
                          /\ AllRead(fForest)
                          /\ itree < fNTrees)

\* a load that failed at the second entry or later
C5_PartialForestAtExit == MismatchExit /\ itree >= 1 /\ Len(fForest) = itree

\* C5, in the words of the specification: at the moment of the failure the
\* ensemble holds no partially loaded forest.
C5_AllOrNothing == MismatchExit => fForest = <<>>

\* C6: a successful ReadWeightsFromStream replaces the ensemble: afterwards
\* the forest and the weight list hold exactly the declared number of
\* entries, each made by this read and none from before.
C6_ReadReplaces ==
    [][(ReadWeightsFromStream /\ pc' = "idle")
       => /\ Len(fForest') = fNTrees'
          /\ Len(fBoostWeights') = fNTrees'
          /\ AllRead(fForest')]_vars

\* a forest was read into an ensemble that had trained more trees than the
\* file holds
C6_TrainedForestReplaced ==
    /\ pc = "idle"
    /\ istr # Opened(<<>>)
    /\ Len(fForest) > 0
    /\ Len(fForest) = fNTrees
    /\ AllRead(fForest)
    /\ Len(fMonitorNtuple) > Len(fForest)

GetMvaValueReturned == ret.kind = "mva"

\* the weighted mean of the scores
WeightedAverage(weights, scores) ==
    Div(SumSeq([i \in 1..Len(scores) |-> Mul(weights[i], scores[i])]),
        SumSeq(weights))

\* the plain mean of the scores
PlainAverage(scores) == Div(SumSeq(scores), Z(Len(scores)))

\* C7: aggregation formulas: for a non-empty forest GetMvaValue returns, in
\* weighted mode, the sum of roundWeight_i * treeScore_i over the sum of the
\* round weights and, in unweighted mode, the sum of the tree scores over
\* the tree count; round weights [2,3] and tree scores [0.8,0.4] give 0.56
\* weighted and 0.6 unweighted.
C7_AggregationFormulas ==
    (GetMvaValueReturned /\ Len(fForest) > 0)
    => /\ ret.val = IF fUseWeightedTrees
                    THEN WeightedAverage(fBoostWeights, ret.scores)
                    ELSE PlainAverage(ret.scores)
       /\ (fBoostWeights = <<Z(2), Z(3)>> /\ ret.scores = <<Q(4, 5), Q(2, 5)>>)
          => ret.val = IF fUseWeightedTrees THEN Q(14, 25) ELSE Q(3, 5)

\* the example of the weighted mode
C7_ExampleScored ==
    /\ GetMvaValueReturned
    /\ fUseWeightedTrees
    /\ fBoostWeights = <<Z(2), Z(3)>>
    /\ ret.scores = <<Q(4, 5), Q(2, 5)>>
    /\ ret.val = Q(14, 25)

ZeroNormalizer ==
    \/ Len(fForest) = 0
    \/ fUseWeightedTrees /\ Eq(SumSeq(fBoostWeights), Zero)

\* C8: scoring with a zero normalizer is a fatal usage error: when the
\* forest is empty, or in weighted mode the round weights sum to zero,
\* GetMvaValue ends in an error outcome and returns no score.
C8_ZeroNormalizerIsFatal == ZeroNormalizer => ~GetMvaValueReturned

InUnitRange(x) == Le(Zero, x) /\ Le(x, One)

\* C9: the ensemble score stays in the range of the tree scores: for a
\* non-empty forest (here even: of finite round weights with a non-zero sum)
\* whose trees each evaluate the event to a value in [0,1], GetMvaValue
\* returns a value in [0,1], for every list of round weights that training
\* can produce, negative ones included.
C9_ScoreInUnitRange ==
    (/\ GetMvaValueReturned
     /\ Len(fForest) > 0
     /\ \A i \in 1..Len(fBoostWeights) : IsFinite(fBoostWeights[i])
     /\ ~ZeroNormalizer
     /\ \A i \in 1..Len(ret.scores) : InUnitRange(ret.scores[i]))
    => InUnitRange(ret.val)

SomeImportance(forest) ==
    \E i \in 1..Len(forest) : \E v \in 1..Len(forest[i].imp) : forest[i].imp[v] # 0

\* C10: importance normalization: for any forest in which some tree reports
\* a non-zero importance entry, the vector GetVariableImportance() returns
\* has non-negative entries that sum to 1.
C10_ImportanceNormalised ==
    (ret.kind = "vector" /\ fNTrees = Len(fForest) /\ SomeImportance(fForest))
    => /\ \A v \in 1..Len(fVariableImportance) : Le(Zero, fVariableImportance[v])
       /\ Eq(SumSeq(fVariableImportance), One)

\* the element-wise sum of the per-tree importance vectors of the forest,
\* divided by the grand total
ImportanceOf(forest) ==
    LET total == [v \in 1..NVar |->
                    SumSeq([i \in 1..Len(forest) |-> Z(forest[i].imp[v])])]
    IN  [v \in 1..NVar |-> Div(total[v], SumSeq(total))]

\* C11: variable importance is a function of the forest alone: every call
\* of GetVariableImportance(), the calls through GetVariableImportance(ivar)
\* included, leaves and returns the element-wise sum of the per-tree
\* importance vectors divided by the grand total, whatever earlier calls
\* did (here even: when the member holds only finite numbers and some tree
\* has importance).
C11_ImportanceOfForestAlone ==
    [][(/\ GetVariableImportance \/ GetVariableImportanceIvar
        /\ fNTrees = Len(fForest)
        /\ SomeImportance(fForest)
        /\ \A v \in 1..Len(fVariableImportance) : IsFinite(fVariableImportance[v]))
       => fVariableImportance' = ImportanceOf(fForest)]_vars

\* tree i of the forest was built and pruned and its round weight is there
RoundCompleted(i) ==
    /\ i <= Len(fBoostWeights)
    /\ fForest[i].origin = "train" => fForest[i].built /\ fForest[i].pruned

\* C12: round step order: in every round the steps are build, prune, boost,
\* then append (tree, round weight) to the forest; so at every point during
\* Train the forest holds only trees whose round has completed its boosting
\* step.
C12_ForestHoldsCompletedRounds ==
    \A i \in 1..Len(fForest) : RoundCompleted(i)

\* the value the boosting step of round j - 1 returned, from what the round
\* left in the monitoring record
ReturnedForTree(j) ==
    IF fBoostType = "AdaBoost" THEN Log(fMonitorNtuple[j].boostWeight) ELSE One

\* the rounds trained so far are those of the running (or last) Train call,
\* which started from an empty forest
FirstTrain == Len(fMonitorNtuple) = itree

\* C13: forest growth: starting from an empty forest, after round i of Train
\* completes the forest holds exactly i+1 trees and i+1 round weights, round
\* weight j being the value the boosting step returned for tree j; when
\* Train returns the forest holds exactly nTrees entries in training order.
C13_ForestGrowth ==
    /\ (pc = "loop" /\ FirstTrain)
       => /\ Len(fForest) = itree
          /\ Len(fBoostWeights) = itree
          /\ \A j \in 1..itree :
                /\ fBoostWeights[j] = ReturnedForTree(j)
                /\ fMonitorNtuple[j].iTree = j - 1
                /\ fMonitorNtuple[j].nNodes = fForest[j].nodes
    /\ (pc = "idle" /\ FirstTrain /\ itree = fNTrees)
       => Len(fForest) = fNTrees /\ Len(fBoostWeights) = fNTrees

\* Train returned after two rounds or more
C13_TrainReturned ==
    /\ pc = "idle"
    /\ FirstTrain
    /\ itree = fNTrees
    /\ fNTrees >= 2
    /\ Len(fForest) = fNTrees
    /\ Len(fBoostWeights) = fNTrees

\* the forest holds trees of training rounds next to trees read from a file
MixedForest ==
    \E i, j \in 1..Len(fForest) :
        fForest[i].origin = "train" /\ fForest[j].origin = "read"

\* the first round of a Train call adds a tree to a forest that was there
GrowsCompleteForest ==
    pc = "loop" /\ itree = 0 /\ Len(fForest) > 0 /\ Len(fForest') > Len(fForest)

\* C14: training mode and inference mode are mutually exclusive for one
\* ensemble: under every sequence of Train and ReadWeightsFromStream calls
\* the forest never holds both entries of training rounds and entries read
\* from a file, and a forest that was trained or loaded is not grown
\* afterwards.
C14_ModesExclusive == [](~MixedForest) /\ [][~GrowsCompleteForest]_vars

\* Train ended the process: the sanity check failed, or the boost option is
\* unknown
TrainAborted == pc = "exit" /\ ret.kind \in {"sanity", "boost"}

\* C15: fatal training errors precede all training work: a failed sanity
\* check or an unknown boosting kind aborts the run before any tree is
\* built and while the forest is still empty, so no partial forest exists
\* at the abort.
C15_AbortBeforeWork ==
    TrainAborted => fForest = <<>> /\ fMonitorNtuple = <<>>

\* sumwfalse of lines 366-368: the weight of the events the scores classify
\* wrongly
MisclassifiedWeight(sample, scores) ==
    SumSeq([j \in 1..Len(sample) |->
               IF (Gt(scores[j], Q(1, 2))) = sample[j].isSignal THEN Zero
               ELSE sample[j].weight])

\* the AdaBoost call of this step computed err, boostWeight and the round
\* weight by the formulas, for the sumw and sumwfalse of some tree
FormulaRound ==
    \E scores \in [1..Len(fEventSample) -> TreeScores] :
        LET sumw      == SumWeights(fEventSample)
            sumwfalse == MisclassifiedWeight(fEventSample, scores)
            err       == Div(sumwfalse, sumw)
        IN  /\ fErrorFraction' = err
            /\ Gt(sumwfalse, Zero) =>
                  /\ fBoostWeight' = Div(Add(One, Neg(err)), err)
                  /\ fBoostWeight' = Div(Add(sumw, Neg(sumwfalse)), sumwfalse)
                  /\ ret' = Returned(Log(fBoostWeight'))

\* sumw = 10 and sumwfalse = 2: a signal event of weight 8 the tree gets
\* right, a background event of weight 2 it gets wrong
ExampleRound ==
    AdaBoostPass(<<[weight |-> Z(8), isSignal |-> TRUE],
                   [weight |-> Z(2), isSignal |-> FALSE]>>, <<One, One>>)

\* C16: for every AdaBoost round with 0 < sumwfalse, err = sumwfalse/sumw,
\* boostWeight = (1-err)/err = (sumw - sumwfalse)/sumwfalse, and the value
\* returned is ln(boostWeight); sumw = 10 and sumwfalse = 2 give err = 0.2
\* and boostWeight = 4.
C16_BoostWeightFormula ==
    /\ [][(AdaBoostRuns /\ TrainBoost) => FormulaRound]_vars
    /\ [](/\ ExampleRound.sumw = Z(10) /\ ExampleRound.sumwfalse = Z(2)
          /\ ExampleRound.err = Q(1, 5) /\ ExampleRound.boostWeight = Z(4)
          /\ ExampleRound.ret = Log(Z(4)))

\* a round with misclassified weight has returned: err > 0, and the round
\* weight is the logarithm of the boost weight
C16_RoundWithError ==
    /\ pc = "record" /\ fBoostType = "AdaBoost"
    /\ Gt(fErrorFraction, Zero) /\ Lt(fErrorFraction, Q(1, 2))
    /\ ret = Returned(Log(fBoostWeight))

\* this step is an AdaBoost call whose tree misclassifies no weight:
\* sumw > 0 and err = sumwfalse/sumw = 0
ZeroErrorRound ==
    /\ AdaBoostRuns /\ TrainBoost
    /\ IsFinite(SumWeights(fEventSample)) /\ Gt(SumWeights(fEventSample), Zero)
    /\ fErrorFraction' = Zero

\* C17: when the round's tree misclassifies no weight (sumwfalse = 0,
\* sumw > 0), AdaBoost uses boostWeight = 1000, returns ln(1000), and leaves
\* every event weight exactly as it was before the call.
C17_ZeroErrorSentinel ==
    [][ZeroErrorRound =>
          /\ fBoostWeight' = Z(1000)
          /\ ret' = Returned(Log(Z(1000)))
          /\ Weights(fEventSample') = Weights(fEventSample)]_vars

\* the error fraction of a round no better than guessing: 0.5 <= err < 1
NoBetterThanGuessing(err) == Le(Q(1, 2), err) /\ Lt(err, One)

\* C18: AdaBoost applies no correction for err >= 0.5: for 0.5 < err < 1
\* the boost weight (1-err)/err is below 1 and the returned round weight is
\* negative, for err = 0.5 the boost weight is 1 and the round weight is 0;
\* the round is neither rejected nor clamped, training continues, and the
\* round weight is recorded in the forest as returned.
C18_NoCorrectionForLargeError ==
    /\ [][(AdaBoostRuns /\ TrainBoost /\ NoBetterThanGuessing(fErrorFraction')) =>
             /\ fBoostWeight' = Div(Add(One, Neg(fErrorFraction')), fErrorFraction')
             /\ ret' = Returned(Log(fBoostWeight'))
             /\ IF fErrorFraction' = Q(1, 2)
                THEN fBoostWeight' = One /\ ret'.val = Zero
                ELSE Lt(fBoostWeight', One) /\ Lt(ret'.val, Zero)
             /\ pc' = "record"]_vars
    /\ [][(TrainRecord /\ fBoostType = "AdaBoost"
              /\ NoBetterThanGuessing(fErrorFraction)) =>
             /\ fBoostWeights' = Append(fBoostWeights, Log(fBoostWeight))
             /\ fForest' = fForest
             /\ itree' = itree + 1 /\ pc' = "loop"]_vars

\* the round after one of negative round weight is under way
C18_NextRoundAfterNegativeWeight ==
    /\ fBoostType = "AdaBoost" /\ pc = "build" /\ itree = 1
    /\ Len(fBoostWeights) = 1 /\ Lt(fBoostWeights[1], Zero)
    /\ Len(fForest) = 2

\* the Bagging call of this step has round index 0, and so had the last
\* Bagging call on the sample: with NTrees = 1 every round has index 0, and
\* nothing else has written the weights since
SameIndexAgain ==
    /\ BaggingRuns /\ TrainBoost
    /\ fNTrees = 1 /\ itree = 0 /\ Len(fMonitorNtuple) >= 1

EvaluationCall ==
    /\ GetMvaValue \/ GetVariableImportance \/ GetVariableImportanceIvar
    /\ Len(fForest) > 0 /\ fNTrees = Len(fForest)
    /\ Len(fBoostWeights) = Len(fForest)

\* C20: once training (or loading) has completed, GetMvaValue and
\* GetVariableImportance calls, in any order, write no state of the
\* ensemble: forest, round weights, event weights, cached vectors.
C20_EvaluationReadOnly ==
    [][EvaluationCall =>
          UNCHANGED <<fForest, fBoostWeights, fEventSample,
                      fVariableImportance>>]_vars

\* the weights the boosting step of this step computed are the ones the
\* member fEventSample holds after it
BoostWritesTheSample ==
    IF fBoostType = "AdaBoost"
    THEN \E scores \in [1..Len(fEventSample) -> TreeScores] :
            /\ fErrorFraction' = AdaBoostPass(fEventSample, scores).err
            /\ fEventSample' = AdaBoostPass(fEventSample, scores).sample
    ELSE fEventSample' = BaggingPass(fEventSample, seeds'[itree + 1]).sample

\* C21: the tree of every round is built from exactly the event weights
\* the preceding boosting step left (round 0: from the weights Train found):
\* the weights Boost computes are written to the sample BuildTree reads,
\* nothing but a boosting step writes a weight, and BuildTree starts at the
\* loop test only, when every earlier round's boosting step has returned.
C21_RoundDataDependency ==
    /\ [][(TrainBoost /\ fBoostType \in {"AdaBoost", "Bagging"}) =>
             BoostWritesTheSample]_vars
    /\ [][fEventSample' # fEventSample => pc = "boost" /\ pc' = "record"]_vars
    /\ [][pc' = "build" =>
             /\ pc = "loop"
             /\ Len(fBoostWeights) = Len(fForest)
             /\ fEventSample' = fEventSample]_vars
    /\ [][TrainBuild \/ TrainPrune \/ TrainRecord \/ TrainLoop \/ TrainEnter =>
             fEventSample' = fEventSample]_vars

\* round 1's tree has been built from weights that round 0 changed
C21_BuiltFromBoostedWeights ==
    /\ pc = "prune" /\ itree = 1 /\ Last(fForest).built
    /\ Len(fBoostWeights) = 1
    /\ \E j \in 1..Len(fEventSample) :
          IsFinite(fEventSample[j].weight) /\ fEventSample[j].weight[2] > 1

\* correctSelected of lines 359-371 for the scores a tree gives
ClassifiedRight(sample, scores) ==
    [j \in 1..Len(sample) |-> (Gt(scores[j], Q(1, 2))) = sample[j].isSignal]

\* w' : w is the same ratio for the events i and j (no division: w'[i] *
\* w[j] = w'[j] * w[i], as doubles)
SameRatio(before, after, i, j) ==
    Eq(Mul(after[i].weight, before[j].weight),
       Mul(after[j].weight, before[i].weight))

\* the scores are those of the tree of this AdaBoost step
ScoresOfStep(scores) ==
    fErrorFraction' =
        Div(MisclassifiedWeight(fEventSample, scores), SumWeights(fEventSample))

\* C22: AdaBoost reweights only misclassified events: with the
\* classification fixed before any weight is changed, a correctly
\* classified event's weight becomes w * sumw/newSumw and a misclassified
\* one's w * boostWeight * sumw/newSumw, so the ratio of the weights of any
\* two correctly classified events, and of any two misclassified events, is
\* unchanged by the round.
C22_OnlyMisclassifiedReweighted ==
    [][(/\ AdaBoostRuns /\ TrainBoost
        /\ WeightsWellDefined(fEventSample)
        /\ Gt(SumWeights(fEventSample), Zero)) =>
          \A scores \in [1..Len(fEventSample) -> TreeScores] :
              ScoresOfStep(scores) =>
                  \A i, j \in 1..Len(fEventSample) :
                      (/\ i # j
                       /\ ClassifiedRight(fEventSample, scores)[i]
                            = ClassifiedRight(fEventSample, scores)[j])
                      => SameRatio(fEventSample, fEventSample', i, j)]_vars

\* the monitoring record of round j - 1 holds the round's index, the round
\* weight its boosting step returned, an error fraction the round computed
\* and the node count of its pruned tree
RecordOfRound(j) ==
    /\ fMonitorNtuple[j].iTree = j - 1
    /\ fMonitorNtuple[j].boostWeight = fBoostWeights[j]
    /\ fMonitorNtuple[j].errorFraction # Indeterminate
    /\ fMonitorNtuple[j].nNodes = fForest[j].nodes

\* C23: Train emits exactly one monitoring record per round, in round
\* order, and the record of round i holds round index i, the round weight
\* returned by round i's boosting step, round i's error fraction and the
\* node count of round i's pruned tree, for AdaBoost and for Bagging.
C23_RecordPerRound ==
    (pc = "loop" /\ FirstTrain) =>
        /\ Len(fMonitorNtuple) = Len(fBoostWeights)
        /\ \A j \in 1..Len(fMonitorNtuple) : RecordOfRound(j)

\* a non-empty sample of non-negative weights and positive total weight
ValidSample(sample) ==
    /\ Len(sample) > 0
    /\ WeightsWellDefined(sample)
    /\ Gt(SumWeights(sample), Zero)

\* C24: AdaBoost never divides by zero on a valid sample: for every
\* classification outcome of the tree, err = 1 included, the two divisors
\* of the round, sumw (line 372) and newSumw (line 399), are strictly
\* positive.
C24_DivisorsPositive ==
    [][(AdaBoostRuns /\ TrainBoost /\ ValidSample(fEventSample)) =>
          \A scores \in [1..Len(fEventSample) -> TreeScores] :
              ScoresOfStep(scores) =>
                  /\ Gt(AdaBoostPass(fEventSample, scores).sumw, Zero)
                  /\ Gt(AdaBoostPass(fEventSample, scores).newSumw, Zero)]_vars

\* the relative error two roundings in a row can leave: (1 + 2^-p)^2 - 1
RoundingTolerance ==
    Q(2 * TwoTo(MantissaBits) + 1, TwoTo(MantissaBits) * TwoTo(MantissaBits))

\* |a - b| <= RoundingTolerance * b
Near(a, b) ==
    /\ Le(Add(a, Neg(b)), Mul(RoundingTolerance, b))
    /\ Le(Add(b, Neg(a)), Mul(RoundingTolerance, b))

\* after the step, the total weight of the events the scores misclassify,
\* and of those they classify right
WrongAfter(scores) == MisclassifiedWeight(fEventSample', scores)

RightAfter(scores) == Add(SumWeights(fEventSample'), Neg(WrongAfter(scores)))

HalfBefore == Mul(Q(1, 2), SumWeights(fEventSample))

\* this step is an AdaBoost call on a valid sample with 0 < err < 1
BalancingRound ==
    /\ AdaBoostRuns /\ TrainBoost /\ ValidSample(fEventSample)
    /\ Gt(fErrorFraction', Zero) /\ Lt(fErrorFraction', One)

CountsAgree ==
    fNTrees = Len(fForest) /\ fNTrees = Len(fBoostWeights)

\* C26: in every state reachable by constructing an ensemble and applying
\* any sequence of Train and ReadWeightsFromStream calls, fNTrees equals
\* the number of entries in the forest and in the round-weight list, so
\* GetVariableImportance never indexes past the end of the forest.
C26_TreeCountConsistent ==
    /\ [](pc = "idle" => CountsAgree)
    /\ [][(GetVariableImportance \/ GetVariableImportanceIvar) =>
             fNTrees <= Len(fForest)]_vars

\* no entry of the list occurs twice
NoDuplicates(list) ==
    \A i, j \in 1..Len(list) : list[i] = list[j] => i = j

\* the list begins with the entries of the earlier list, in their order
BeginsWith(list, earlier) ==
    /\ Len(earlier) <= Len(list)
    /\ SubSeq(list, 1, Len(earlier)) = earlier

\* C27: for every tree and every graph of friend trees, GetBranchNames and
\* GetTopLevelBranchNames visit each tree at most once, keep a list in which
\* every name occurs once and which holds exactly the names of the registry,
\* only append to it (the order is the order of first discovery), and return.
C27_BranchNamesCollected ==
    /\ [](/\ NoDuplicates(visited)
          /\ NoDuplicates(bNames)
          /\ {bNames[i] : i \in 1..Len(bNames)} = bNamesReg)
    /\ [][BeginsWith(bNames', bNames)]_vars
    /\ <>(running = "returned")

====
